---- MODULE Spec2Model ----
(***************************************************************************)
(* Nearby-station search of the fuel price application: the PostalCodeSearch *)
(* component (postal-code / geolocation search, ranking, asynchronous brand  *)
(* enrichment), its parent StationFinder, and the distance and Overpass      *)
(* utilities they call.                                                      *)
(*                                                                           *)
(* Coordinates.  Every point of the model lies on one meridian (lon = LON0   *)
(* unless the longitude is unparseable), but for the stations of GridFeeds.  *)
(* On a meridian the haversine formula reduces to R * |dLat| exactly, so a   *)
(* coordinate is written as an integer number of 10 m arc units and          *)
(* calculateDistance returns the same units (KM of them per kilometre).  Off *)
(* the meridian, for points a few units apart, it is the planar distance     *)
(* with the longitude difference scaled by the cosine of the latitude.       *)
(*                                                                           *)
(* JavaScript numbers.  NaN, Infinity and -Infinity are the three reserved   *)
(* integers below; all arithmetic on values that may hold them goes through  *)
(* the Js* operators, which follow IEEE-754 / ECMAScript for these values.   *)
(*                                                                           *)
(* Strings that the code inspects character by character (postal codes,      *)
(* fixed-point coordinate strings) are tuples of one-character strings.      *)
(***************************************************************************)
EXTENDS Integers, Sequences, FiniteSets, TLC

VARIABLES
    allStations,      \* prop allStations of PostalCodeSearch (StationFinder.fuelStations)
    geolocation,      \* whether navigator.geolocation exists in this browser
    postalCode,       \* useState postalCode
    searchResults,    \* useState searchResults
    error,            \* useState error
    loadingBrands,    \* useState loadingBrands
    mapCenter,        \* StationFinder: useState mapCenter
    userLocation,     \* StationFinder: useState userLocation
    nearbyStations,   \* StationFinder: useState nearbyStations
    geocodeInFlight,  \* handleSearch calls suspended at `await fetch(geo.api.gouv.fr)`
    positionInFlight, \* getCurrentPosition calls whose callback has not run yet
    enrichInFlight,   \* enrichStationsWithBrands promises not settled yet
    nSearch,          \* history: number of searches started; a search is named by its rank
    notifications,    \* history: calls of onLocationFound / onUseMyLocation, in order
    requests,         \* history: geocoding requests sent, in order
    rankCenter,       \* ranking pipeline applied on its own: the center
    rankCandidates,   \*   the filtered list before the hybrid sort
    rankSorted,       \*   the list after the hybrid sort
    rankNearest,      \*   the list after sort and slice(0, 10)
    rankDone,         \*   whether the pipeline has run
    rankRuns,         \*   history: what each run of the pipeline computed
    apiStations,      \* enrichStationsWithBrands applied on its own: its argument
    overpassResponse, \*   the Overpass answer fetchOSMFuelStations gets
    enriched,         \*   the list it resolved with
    enrichDone,       \*   whether it has run
    now,              \* Date.now()
    osmCache,         \* overpass.js: the entries of the Map osmCache
    fuelPricesCache,  \* server.js: fuelPricesCache
    cacheCalls,       \* calls of fetchOSMFuelStations / GET /api/fuel-prices in flight
    cacheLog,         \* history: what these calls did, in order
    cacheReply        \* history: what the call answered last gave its caller

vars == <<allStations, geolocation, postalCode, searchResults, error, loadingBrands,
          mapCenter, userLocation, nearbyStations, geocodeInFlight, positionInFlight,
          enrichInFlight, nSearch, notifications, requests,
          rankCenter, rankCandidates, rankSorted, rankNearest, rankDone, rankRuns,
          apiStations, overpassResponse, enriched, enrichDone,
          now, osmCache, fuelPricesCache, cacheCalls, cacheLog>>

componentVars == <<allStations, geolocation, postalCode, searchResults, error,
                   loadingBrands, mapCenter, userLocation, nearbyStations,
                   geocodeInFlight, positionInFlight, enrichInFlight, nSearch,
                   notifications, requests>>

rankVars == <<rankCenter, rankCandidates, rankSorted, rankNearest, rankDone, rankRuns>>

enrichVars == <<apiStations, overpassResponse, enriched, enrichDone>>

cacheVars == <<now, osmCache, fuelPricesCache, cacheCalls, cacheLog, cacheReply>>

-----------------------------------------------------------------------------
(* JavaScript values *)

NaN == 2000000001

Infinity == 2000000000

NegInfinity == -2000000000

null == "null"

Abs(x) == IF x < 0 THEN -x ELSE x

\* x - y on numbers
JsSub(x, y) ==
    IF x = NaN \/ y = NaN THEN NaN
    ELSE IF x = Infinity THEN (IF y = Infinity THEN NaN ELSE Infinity)
    ELSE IF x = NegInfinity THEN (IF y = NegInfinity THEN NaN ELSE NegInfinity)
    ELSE IF y = Infinity THEN NegInfinity
    ELSE IF y = NegInfinity THEN Infinity
    ELSE x - y

\* Math.abs(x)
JsAbs(x) ==
    IF x = NaN THEN NaN
    ELSE IF x = Infinity \/ x = NegInfinity THEN Infinity
    ELSE Abs(x)

\* x > y, x <= y, x < y: false as soon as an operand is NaN
JsGt(x, y) == x # NaN /\ y # NaN /\ x > y

JsLeq(x, y) == x # NaN /\ y # NaN /\ x <= y

JsLt(x, y) == x # NaN /\ y # NaN /\ x < y

\* x / d for a finite non-zero d (the model only divides multiples of d)
JsDiv(x, d) ==
    IF x = NaN \/ x = Infinity \/ x = NegInfinity THEN x ELSE x \div d

\* ToBoolean of a number: 0 and NaN are falsy
Truthy(x) == x # 0 /\ x # NaN

Digits == {"0", "1", "2", "3", "4", "5", "6", "7", "8", "9"}

DigitValue(c) ==
    CASE c = "0" -> 0 [] c = "1" -> 1 [] c = "2" -> 2 [] c = "3" -> 3 [] c = "4" -> 4
      [] c = "5" -> 5 [] c = "6" -> 6 [] c = "7" -> 7 [] c = "8" -> 8 [] c = "9" -> 9

RECURSIVE DigitPrefix(_, _, _)
\* value of the longest run of digits of s starting at position i, continuing acc
DigitPrefix(s, i, acc) ==
    IF i > Len(s) \/ s[i] \notin Digits THEN acc
    ELSE DigitPrefix(s, i + 1, acc * 10 + DigitValue(s[i]))

\* parseFloat(s) for strings without sign, blank or decimal point: the number
\* written by the leading digits, NaN when the string does not start with a digit
parseFloat(s) ==
    IF Len(s) = 0 \/ s[1] \notin Digits THEN NaN ELSE DigitPrefix(s, 1, 0)

-----------------------------------------------------------------------------
(* utils/distance.js *)

KM == 100

M_PER_UNIT == 10

FIXED_POINT == 100000

LON0 == 235

\* cos(toRad(lat1)) * cos(toRad(lat2)) at the latitude of the model, 48 degrees
\* north: 4/9
COS2_NUM == 4

COS2_DEN == 9

\* the integer nearest to the square root of num / den
RoundSqrt(num, den) ==
    CHOOSE r \in 0..(num + 1) :
        /\ r = 0 \/ den * (2 * r - 1) * (2 * r - 1) <= 4 * num
        /\ 4 * num < den * (2 * r + 1) * (2 * r + 1)

\* a distance that keeps the sign of lat2 - lat1
calculateDistanceSigned(lat1, lon1, lat2, lon2) ==
    IF lat1 = NaN \/ lon1 = NaN \/ lat2 = NaN \/ lon2 = NaN THEN NaN
    ELSE lat2 - lat1

\* calculateDistance(lat1, lon1, lat2, lon2): haversine, in coordinate units;
\* on one meridian dLon = 0 and the great-circle distance is R * |dLat|;
\* otherwise a = sin^2(dLat/2) + cos(lat1) cos(lat2) sin^2(dLon/2) gives, for
\* points a few units apart, R * sqrt(dLat^2 + cos(lat1) cos(lat2) dLon^2),
\* to the nearest unit
calculateDistance(lat1, lon1, lat2, lon2) ==
    IF lat1 = NaN \/ lon1 = NaN \/ lat2 = NaN \/ lon2 = NaN THEN NaN
    ELSE IF lon1 = lon2 THEN Abs(lat2 - lat1)
    ELSE RoundSqrt(COS2_DEN * (lat2 - lat1) * (lat2 - lat1)
                     + COS2_NUM * (lon2 - lon1) * (lon2 - lon1),
                   COS2_DEN)

NoGeom == <<>>

NoString == <<>>

\* parseCoordinates(station); ok = FALSE is the `return null`
parseCoordinates(station) ==
    IF station.geom # NoGeom
    THEN [ok |-> TRUE, lat |-> station.geom[1], lon |-> station.geom[2]]
    ELSE IF station.latitude # NoString /\ station.longitude # NoString
    THEN [ok  |-> TRUE,
          lat |-> JsDiv(parseFloat(station.latitude), FIXED_POINT),
          lon |-> JsDiv(parseFloat(station.longitude), FIXED_POINT)]
    ELSE [ok |-> FALSE, lat |-> NaN, lon |-> NaN]

\* the sign Array.prototype.sort takes from a comparator's result (NaN is +0)
SortSign(v) == IF v = NaN THEN 0 ELSE IF v < 0 THEN -1 ELSE IF v > 0 THEN 1 ELSE 0

Orderings(s) ==
    LET n == Len(s)
    IN  { [k \in 1..n |-> s[p[k]]] :
            p \in {f \in [1..n -> 1..n] : \A i, j \in 1..n : f[i] = f[j] => i = j} }

\* Array.prototype.sort(comparefn): the stable sort when comparefn is a consistent
\* comparison function for the elements (ECMAScript 23.1.3.30), otherwise the
\* order is implementation-defined: any permutation of the elements.
\* comparefn[i, j] is the result of the comparator on s[i] and s[j].
sort(s, comparefn) ==
    LET n == Len(s)
        c(i, j) == SortSign(comparefn[i, j])
        consistent ==
            /\ \A i \in 1..n : c(i, i) = 0
            /\ \A i, j \in 1..n : c(i, j) = 0 => c(j, i) = 0
            /\ \A i, j, k \in 1..n :
                /\ (c(i, j) = 0 /\ c(j, k) = 0) => c(i, k) = 0
                /\ (c(i, j) < 0 /\ c(j, k) < 0) => c(i, k) < 0
                /\ (c(i, j) > 0 /\ c(j, k) > 0) => c(i, k) > 0
        before(j, i) == c(j, i) < 0 \/ (c(j, i) = 0 /\ j < i)
        place(i) == Cardinality({j \in 1..n : before(j, i)}) + 1
    IN  IF consistent
        THEN { [k \in 1..n |-> s[CHOOSE i \in 1..n : place(i) = k]] }
        ELSE Orderings(s)

\* the comparator of sortByDistance: a.distance - b.distance
distanceCompare(a, b) == JsSub(a.distance, b.distance)

\* the .map of sortByDistance: { ...station, distance }
withDistance(station, refLat, refLon) ==
    LET coords == parseCoordinates(station)
    IN  [distance |-> IF ~coords.ok THEN Infinity
                      ELSE calculateDistance(refLat, refLon, coords.lat, coords.lon)]
        @@ station

\* sortByDistance(stations, refLat, refLon): the lists it can return
sortByDistance(stations, refLat, refLon) ==
    LET mapped == [i \in 1..Len(stations) |-> withDistance(stations[i], refLat, refLon)]
    IN  sort(mapped, [i, j \in DOMAIN mapped |-> distanceCompare(mapped[i], mapped[j])])

-----------------------------------------------------------------------------
(* components/PostalCodeSearch.js: the ranking both handlers run *)

MAX_DISTANCE_KM == 50

RELAXED_DISTANCE_KM == 100

MIN_STATIONS == 5

TIE_BREAK_KM == 5

MISSING_PRICE == 999

MAX_RESULTS == 10

CENTS == 100

\* the values of station[fuelPriceField]: null, '' or a number (in cents)
PriceNull == [kind |-> "null", value |-> 0]

PriceEmpty == [kind |-> "string", value |-> 0]

Price(n) == [kind |-> "number", value |-> n]

\* a filter that only refuses the empty string
hasPriceNotEmpty(s) == s.prix # PriceEmpty

\* s[fuelPriceField] != null && s[fuelPriceField] !== ''
hasPrice(s) == s.prix.kind # "null" /\ s.prix # PriceEmpty

\* s[fuelPriceField] || 999
priceOr999(s) ==
    IF s.prix.kind = "number" /\ s.prix.value # 0 THEN s.prix.value
    ELSE MISSING_PRICE * CENTS

\* the filter of lines 89-93 / 98-102
pricedWithin(sorted, maxKm) ==
    SelectSeq(sorted, LAMBDA s : hasPrice(s) /\ JsLeq(s.distance, maxKm * KM))

\* a relaxation that filters the stations the 50 km filter kept
candidatesOfKept(byDistance) ==
    LET within50 == pricedWithin(byDistance, MAX_DISTANCE_KM)
    IN  IF Len(within50) < MIN_STATIONS
        THEN pricedWithin(within50, RELAXED_DISTANCE_KM)
        ELSE within50

\* lines 83-103: the 50 km filter, relaxed to 100 km from the full station set
\* when it keeps fewer than 5 stations
candidatesOf(byDistance) ==
    LET within50 == pricedWithin(byDistance, MAX_DISTANCE_KM)
    IN  IF Len(within50) < MIN_STATIONS
        THEN pricedWithin(byDistance, RELAXED_DISTANCE_KM)
        ELSE within50

\* the comparator of lines 106-112
hybridCompare(a, b) ==
    LET distDiff == JsSub(a.distance, b.distance)
    IN  IF JsGt(JsAbs(distDiff), TIE_BREAK_KM * KM) THEN distDiff
        ELSE priceOr999(a) - priceOr999(b)

\* a slice that keeps the whole list
sliceAll(sorted) == sorted

\* sorted.slice(0, 10)
slice10(sorted) == SubSeq(sorted, 1, IF Len(sorted) < MAX_RESULTS THEN Len(sorted) ELSE MAX_RESULTS)

\* lines 83-115: every (candidates, nearest) the ranking can produce; the two
\* calls of sortByDistance on the same arguments return the same list
rankings(stations, centerLat, centerLon) ==
    UNION { LET withPrices == candidatesOf(byDistance)
            IN  { [candidates |-> withPrices, sorted |-> sorted,
                   nearest |-> slice10(sorted)] :
                    sorted \in sort(withPrices,
                                    [i, j \in DOMAIN withPrices |->
                                        hybridCompare(withPrices[i], withPrices[j])]) } :
            byDistance \in sortByDistance(stations, centerLat, centerLon) }

-----------------------------------------------------------------------------
(* utils/overpass.js *)

MATCH_RADIUS_M == 100

\* CACHE_DURATION, in ms
CACHE_DURATION == 24 * 60 * 60 * 1000

\* radius = 10000, the default every call of the application takes
DEFAULT_RADIUS == 10000

\* a thousandth of a degree of latitude is 111 m of arc: 11 coordinate units
MILLIDEGREE == 11

\* Number(x.toFixed(3)) in thousandths of a degree: the nearest one (a
\* coordinate of the model is never half-way between two), "NaN" for NaN
toFixed3(x) ==
    IF x = NaN THEN NaN ELSE (2 * x + MILLIDEGREE) \div (2 * MILLIDEGREE)

\* line 15: `${lat.toFixed(3)},${lon.toFixed(3)},${radius}`
cacheKey(lat, lon, radius) == <<toFixed3(lat), toFixed3(lon), radius>>

\* an entry as old as CACHE_DURATION counts as fresh
osmCachedUpTo(key) ==
    { cached \in osmCache :
        cached.key = key /\ now - cached.timestamp <= CACHE_DURATION }

\* lines 18-19: osmCache.get(cacheKey) when it exists and is less than
\* CACHE_DURATION old (a set with at most one entry)
osmCached(key) ==
    { cached \in osmCache :
        cached.key = key /\ now - cached.timestamp < CACHE_DURATION }

\* lines 63-66: osmCache.set(cacheKey, { data: stations, timestamp: Date.now() })
osmCacheSet(key, stations) ==
    { cached \in osmCache : cached.key # key }
        \cup { [key |-> key, data |-> stations, timestamp |-> now] }

\* calculateDistanceMeters(lat1, lon1, lat2, lon2): haversine with R in metres
calculateDistanceMeters(lat1, lon1, lat2, lon2) ==
    IF lat1 = NaN \/ lon1 = NaN \/ lat2 = NaN \/ lon2 = NaN THEN NaN
    ELSE Abs(lat2 - lat1) * M_PER_UNIT

\* a || b on tag values
OrElse(a, b) == IF a # null /\ a # "" THEN a ELSE b

\* a record whose displayName prefers the name to the operator and the brand
osmStationByName(element) ==
    [osmId       |-> element.id,
     lat         |-> element.lat,
     lon         |-> element.lon,
     brand       |-> OrElse(element.tags.brand, null),
     name        |-> OrElse(element.tags.name, null),
     operator    |-> OrElse(element.tags.operator, null),
     displayName |-> OrElse(element.tags.name,
                            OrElse(element.tags.operator, OrElse(element.tags.brand, null)))]

\* lines 45-60: the record built from one element of the Overpass answer
osmStation(element) ==
    [osmId       |-> element.id,
     lat         |-> element.lat,
     lon         |-> element.lon,
     brand       |-> OrElse(element.tags.brand, null),
     name        |-> OrElse(element.tags.name, null),
     operator    |-> OrElse(element.tags.operator, null),
     displayName |-> OrElse(element.tags.brand,
                            OrElse(element.tags.operator, OrElse(element.tags.name, null)))]

\* fetchOSMFuelStations, given the answer to its request: the mapped elements,
\* or [] when the request failed or was answered non-2xx (lines 38-40, 69-72)
fetchOSMFuelStations(response) ==
    IF response.ok
    THEN [k \in 1..Len(response.elements) |-> osmStation(response.elements[k])]
    ELSE <<>>

\* a cache that also keeps the empty list of a failed request
osmCacheAfterAny(key, response) ==
    osmCacheSet(key, fetchOSMFuelStations(response))

\* lines 38-72: the stations are cached when the request was answered 2xx
\* (lines 63-66); the catch block (lines 69-72) writes nothing
osmCacheAfter(key, response) ==
    IF response.ok
    THEN osmCacheSet(key, fetchOSMFuelStations(response))
    ELSE osmCache

\* a match radius that takes in 100 m
withinMatchRadiusInclusive(distance) == JsLeq(distance, MATCH_RADIUS_M)

\* line 111, first conjunct: distance < 100
withinMatchRadius(distance) == JsLt(distance, MATCH_RADIUS_M)

RECURSIVE closestOSM(_, _, _, _, _)
\* lines 101-115: the forEach over osmStations from index k on, with the closest
\* match so far (0: none) and its distance; the index of the match it ends with
closestOSM(coords, osm, k, closest, minDistance) ==
    IF k > Len(osm) THEN closest
    ELSE LET distance == calculateDistanceMeters(coords.lat, coords.lon,
                                                 osm[k].lat, osm[k].lon)
         IN  IF withinMatchRadius(distance) /\ JsLt(distance, minDistance)
             THEN closestOSM(coords, osm, k + 1, k, distance)
             ELSE closestOSM(coords, osm, k + 1, closest, minDistance)

\* a match that attaches whatever displayName the matched element has
enrichStationAlways(station, osm) ==
    LET coords == parseCoordinates(station)
        closest == closestOSM(coords, osm, 1, 0, Infinity)
    IN  IF ~coords.ok THEN station
        ELSE IF closest # 0
        THEN [brand |-> osm[closest].displayName, brandSource |-> "osm"] @@ station
        ELSE station

\* lines 96-127: the station one element of apiStations maps to
enrichStation(station, osm) ==
    LET coords == parseCoordinates(station)
        closest == closestOSM(coords, osm, 1, 0, Infinity)
    IN  IF ~coords.ok THEN station
        ELSE IF closest # 0 /\ osm[closest].displayName # null
        THEN [brand |-> osm[closest].displayName, brandSource |-> "osm"] @@ station
        ELSE station

\* an enrichment that resolves with no station when OSM has none
enrichStationsOrNone(stations, osm) ==
    IF Len(stations) = 0 THEN stations
    ELSE IF Len(osm) = 0 THEN <<>>
    ELSE [k \in 1..Len(stations) |-> enrichStation(stations[k], osm)]

\* an enrichment that resolves with the stations it found a brand for
enrichStationsMatchedOnly(stations, osm) ==
    IF Len(stations) = 0 THEN stations
    ELSE IF Len(osm) = 0 THEN stations
    ELSE SelectSeq([k \in 1..Len(stations) |-> enrichStation(stations[k], osm)],
                   LAMBDA station : "brandSource" \in DOMAIN station)

\* enrichStationsWithBrands(apiStations, ...), given what fetchOSMFuelStations
\* returned: the list the promise resolves with
enrichStationsWithBrands(stations, osm) ==
    IF Len(stations) = 0 THEN stations
    ELSE IF Len(osm) = 0 THEN stations
    ELSE [k \in 1..Len(stations) |-> enrichStation(stations[k], osm)]

-----------------------------------------------------------------------------
(* backend/src/server.js: the cache of GET /api/fuel-prices *)

\* line 120: 10 * 60 * 1000 ms
PRICES_TTL == 10 * 60 * 1000

\* lines 13-16: `data: null` and `timestamp: null`, both falsy at lines 117-118
NoData == <<>>
NoTimestamp == 0
\* line 13: the cache starts without a key, which equals no request's key
NoKey == <<"undefined">>

\* a slot that is still served when it is exactly 10 minutes old
pricesCachedUpTo(key) ==
    /\ fuelPricesCache.data # NoData
    /\ fuelPricesCache.timestamp # NoTimestamp
    /\ fuelPricesCache.key = key
    /\ now - fuelPricesCache.timestamp <= PRICES_TTL

\* a cache test that does not look at the key
pricesCachedAnyKey(key) ==
    /\ fuelPricesCache.data # NoData
    /\ fuelPricesCache.timestamp # NoTimestamp
    /\ now - fuelPricesCache.timestamp < PRICES_TTL

\* lines 116-121: data and timestamp are truthy, the key is the request's and
\* the entry is less than 10 minutes old
pricesCached(key) ==
    /\ fuelPricesCache.data # NoData
    /\ fuelPricesCache.timestamp # NoTimestamp
    /\ fuelPricesCache.key = key
    /\ now - fuelPricesCache.timestamp < PRICES_TTL

-----------------------------------------------------------------------------
(* Station sets *)

Str5(a, b, c, d, e) == <<a, b, c, d, e>>

CP_PARIS == Str5("7", "5", "0", "0", "1")

CP_OTHER == Str5("1", "3", "0", "0", "1")

\* the center the inputs are laid out around (10 km north of the origin)
CENTER == 1000

\* a station record of the price feed with a geom array d units north of CENTER
StationAt(cp, d, prix) ==
    [cp |-> cp, geom |-> <<CENTER + d, LON0>>, latitude |-> NoString,
     longitude |-> NoString, prix |-> prix, brand |-> null]

\* a station record with latitude / longitude strings
StationStr(cp, latitude, longitude, prix) ==
    [cp |-> cp, geom |-> NoGeom, latitude |-> latitude, longitude |-> longitude,
     prix |-> prix, brand |-> null]

\* the feed: each record gets its id (its place in the feed)
Feed(records) ==
    [i \in 1..Len(records) |-> [id |-> i] @@ records[i]]

SeqsUpTo(pool, n) == UNION { [1..k -> pool] : k \in 0..n }

\* the tags of an element of the Overpass answer
Tags(brand, operator, name) == [brand |-> brand, operator |-> operator, name |-> name]

\* an element of the Overpass answer d units north of CENTER
Element(d, tags) == [lat |-> CENTER + d, lon |-> LON0, tags |-> tags]

\* the station sets of the ranking properties: up to MaxOrderStations stations within
\* a few km of each other (prices rising or falling with distance, a price of 0,
\* unparseable coordinates) ...
MaxOrderStations == 3

OrderPool ==
    { StationAt(CP_PARIS, 0, Price(180)),
      StationAt(CP_PARIS, 0, Price(170)),
      StationAt(CP_PARIS, 4 * KM, Price(175)),
      StationAt(CP_PARIS, 4 * KM, Price(0)),
      StationAt(CP_PARIS, 8 * KM, Price(170)),
      StationAt(CP_PARIS, 8 * KM, Price(180)),
      StationStr(CP_PARIS, <<"a", "b", "c">>, <<"a", "b", "c">>, Price(175)) }

OrderFeeds == { Feed(r) : r \in SeqsUpTo(OrderPool, MaxOrderStations) }

\* ... and up to MaxNear priced stations 10 km away followed by up to MaxTail
\* stations on the 50 km and 100 km limits, without a price or without coordinates
MaxNear == 5

MaxTail == 2

ZonePool ==
    { StationAt(CP_OTHER, MAX_DISTANCE_KM * KM, Price(180)),
      StationAt(CP_OTHER, MAX_DISTANCE_KM * KM + 1, Price(180)),
      StationAt(CP_OTHER, RELAXED_DISTANCE_KM * KM, Price(180)),
      StationAt(CP_OTHER, RELAXED_DISTANCE_KM * KM + 1, Price(180)),
      StationAt(CP_OTHER, 10 * KM, PriceNull),
      StationAt(CP_OTHER, 10 * KM, PriceEmpty),
      StationStr(CP_OTHER, NoString, NoString, Price(180)) }

\* ... and more than ten priced stations 1 km apart, the farthest first in the
\* feed, each cheaper than the ones farther out
MaxLong == 11

LongFeeds ==
    { Feed([i \in 1..n |-> StationAt(CP_PARIS, (n - i) * KM, Price(170 + (n - i)))]) :
        n \in 10..MaxLong }

MaxOff == 1

\* a station d units north and e units east of (CENTER, LON0)
StationOff(d, e) ==
    [cp |-> CP_PARIS, geom |-> <<CENTER + d, LON0 + e>>, latitude |-> NoString,
     longitude |-> NoString, prix |-> Price(180), brand |-> null]

\* two stations, each at most MaxOff units from the center in latitude and
\* in longitude
GridFeeds ==
    { Feed(<<StationOff(d1, e1), StationOff(d2, e2)>>) :
        d1 \in -MaxOff..MaxOff, e1 \in -MaxOff..MaxOff,
        d2 \in -MaxOff..MaxOff, e2 \in -MaxOff..MaxOff }

\* one station 1 km away followed by 10 or more cheaper ones 2 km away
CrowdFeeds ==
    { Feed(<<StationAt(CP_PARIS, KM, Price(190))>>
           \o [i \in 1..n |-> StationAt(CP_PARIS, 2 * KM, Price(170))]) :
        n \in 10..MaxLong }

NearBlock(k) == [i \in 1..k |-> StationAt(CP_PARIS, 10 * KM, Price(180))]

ZoneFeeds ==
    { Feed(NearBlock(k) \o t) : k \in 0..MaxNear, t \in SeqsUpTo(ZonePool, MaxTail) }

-----------------------------------------------------------------------------
(* The component after construction *)

NoCenter == <<>>

InitComponent ==
    /\ geolocation \in BOOLEAN
    /\ postalCode = <<>>
    /\ searchResults = <<>>
    /\ error = ""
    /\ loadingBrands = FALSE
    /\ mapCenter = NoCenter
    /\ userLocation = NoCenter
    /\ nearbyStations = <<>>
    /\ geocodeInFlight = {}
    /\ positionInFlight = {}
    /\ enrichInFlight = {}
    /\ nSearch = 0
    /\ notifications = <<>>
    /\ requests = <<>>

InitRankIdle ==
    /\ rankCenter = CENTER
    /\ rankCandidates = <<>>
    /\ rankSorted = <<>>
    /\ rankNearest = <<>>
    /\ rankRuns = <<>>
    /\ rankDone = FALSE

InitEnrichIdle ==
    /\ apiStations = <<>>
    /\ overpassResponse = [ok |-> FALSE, elements |-> <<>>]
    /\ enriched = <<>>
    /\ enrichDone = FALSE

\* the instant the page and the server start at
T0 == 1000

\* history: no call has been answered yet
NoReply == [id |-> 0, cache |-> "none", key |-> <<>>, ok |-> FALSE, body |-> <<>>]

\* both caches empty (server.js lines 13-16, overpass.js line 5)
InitCaches ==
    /\ now = T0
    /\ osmCache = {}
    /\ fuelPricesCache = [data |-> NoData, timestamp |-> NoTimestamp, key |-> NoKey]
    /\ cacheCalls = {}
    /\ cacheLog = <<>>
    /\ cacheReply = NoReply

-----------------------------------------------------------------------------
(* components/PostalCodeSearch.js and pages/StationFinder.js *)

MaxStations == 2

MaxSearches == 2

\* the stations of the feeds with unusable coordinates: with a geom array, with
\* coordinate strings (non-numeric, numeric latitude only), without coordinates
SearchPool ==
    { StationAt(CP_PARIS, 0, Price(180)),
      StationStr(CP_PARIS, <<"a", "b", "c">>, <<"a", "b", "c">>, Price(175)),
      StationStr(CP_PARIS, <<"1", "4", "0", "0", "0", "0", "0", "0", "0">>,
                 <<"a", "b", "c">>, Price(170)),
      StationStr(CP_OTHER, NoString, NoString, Price(180)) }

SearchFeeds == { Feed(r) : r \in SeqsUpTo(SearchPool, MaxStations) }

\* the feeds of the runs with several searches in flight: no station, or one
\* station with a geom array at CENTER
LoadedFeeds == { Feed(<<>>), Feed(<<StationAt(CP_PARIS, 0, Price(180))>>) }

\* what the user can have typed in the postal code field (at most 5 characters)
PostalInputs ==
    { CP_PARIS, CP_OTHER, Str5("7", "5", "0", "0", "a"), <<"7", "5", "0", "0">> }

\* the center geo.api.gouv.fr answers for a postal code, the device's position
GEOCODED == 1200

POSITION == 1400

ERR_SEARCHING == "Searching..."

ERR_INVALID == "Please enter a valid 5-digit postal code"

ERR_NOT_FOUND == "Postal code not found"

ERR_GEOCODE == "Error: Failed to geocode postal code"

ERR_UNSUPPORTED == "Geolocation is not supported by your browser"

ERR_LOCATING == "Getting your location..."

ERR_POSITION == "Error getting location"

Init ==
    /\ allStations \in LoadedFeeds
    /\ InitComponent
    /\ InitRankIdle
    /\ InitEnrichIdle
    /\ InitCaches

\* the same component over the feeds with unusable coordinates
InitResolve ==
    /\ allStations \in SearchFeeds
    /\ InitComponent
    /\ InitRankIdle
    /\ InitEnrichIdle
    /\ InitCaches

\* setPostalCode(e.target.value), line 267
setPostalCode ==
    /\ \E value \in PostalInputs : postalCode' = value
    /\ UNCHANGED <<allStations, geolocation, searchResults, error, loadingBrands,
                   mapCenter, userLocation, nearbyStations, geocodeInFlight,
                   positionInFlight, enrichInFlight, nSearch, notifications,
                   requests, rankVars, enrichVars, cacheVars>>

\* StationFinder.handleLocationFound / handleUseMyLocation (lines 74-84)
ParentNotified(handler, lat, lon, stations) ==
    /\ mapCenter' = <<lat, lon>>
    /\ userLocation' = IF handler = "onLocationFound" THEN NoCenter ELSE <<lat, lon>>
    /\ nearbyStations' = stations

\* history: one call of onLocationFound / onUseMyLocation
Notification(search, handler, stage, lat, lon, stations) ==
    [search |-> search, handler |-> handler, stage |-> stage,
     lat |-> lat, lon |-> lon, stations |-> stations]

\* a search that notifies the parent only when the enrichment has settled
RankAndNotifyOnce(search, handler, lat, lon) ==
    \E r \in rankings(allStations, lat, lon) :
        /\ searchResults' = r.nearest
        /\ error' = ""
        /\ loadingBrands' = (Len(r.nearest) # 0)
        /\ UNCHANGED <<mapCenter, userLocation, nearbyStations>>
        /\ IF Len(r.nearest) = 0
           THEN /\ enrichInFlight' = enrichInFlight
                /\ requests' = requests
                /\ notifications' = Append(notifications,
                        Notification(search, handler, "enriched", lat, lon, r.nearest))
           ELSE /\ enrichInFlight' = enrichInFlight \cup
                      {[search |-> search, handler |-> handler, lat |-> lat,
                        lon |-> lon, stations |-> r.nearest]}
                /\ requests' = Append(requests, [search |-> search, service |-> "overpass"])
                /\ notifications' = notifications

\* a search that sends its Overpass request twice
RankAndNotifyTwice(search, handler, lat, lon) ==
    \E r \in rankings(allStations, lat, lon) :
        LET first == Notification(search, handler, "initial", lat, lon, r.nearest)
            second == Notification(search, handler, "enriched", lat, lon, r.nearest)
            sent == [search |-> search, service |-> "overpass"]
        IN  /\ searchResults' = r.nearest
            /\ error' = ""
            /\ ParentNotified(handler, lat, lon, r.nearest)
            /\ IF Len(r.nearest) = 0
               THEN /\ loadingBrands' = FALSE
                    /\ enrichInFlight' = enrichInFlight
                    /\ requests' = requests
                    /\ notifications' = notifications \o <<first, second>>
               ELSE /\ loadingBrands' = TRUE
                    /\ enrichInFlight' = enrichInFlight \cup
                          {[search |-> search, handler |-> handler, lat |-> lat,
                            lon |-> lon, stations |-> r.nearest]}
                    /\ requests' = requests \o <<sent, sent>>
                    /\ notifications' = Append(notifications, first)

\* lines 80-148 / 166-231: the rest of a search once its center is known.  The
\* list is ranked and displayed, the enrichment is started and the parent is
\* notified with the ranked list; the enrichment's .then runs later, after the
\* answer to the one request of fetchOSMFuelStations.  An empty list makes
\* enrichStationsWithBrands return without awaiting anything (overpass.js lines
\* 82-84), and a list whose center is in the OSM cache makes it return without
\* a request (lines 18-21): in both cases its .then runs as a microtask right
\* after the handler.
RankAndNotify(search, handler, lat, lon) ==
    \E r \in rankings(allStations, lat, lon) :
        LET first == Notification(search, handler, "initial", lat, lon, r.nearest)
            key == cacheKey(lat, lon, DEFAULT_RADIUS)
            result ==
                IF Len(r.nearest) = 0 \/ osmCached(key) = {}
                THEN r.nearest
                ELSE enrichStationsWithBrands(r.nearest,
                        (CHOOSE cached \in osmCached(key) : TRUE).data)
            second == Notification(search, handler, "enriched", lat, lon, result)
        IN  /\ error' = ""
            /\ searchResults' = result
            /\ ParentNotified(handler, lat, lon, result)
            /\ IF Len(r.nearest) = 0 \/ osmCached(key) # {}
               THEN /\ loadingBrands' = FALSE
                    /\ enrichInFlight' = enrichInFlight
                    /\ requests' = requests
                    /\ notifications' = notifications \o <<first, second>>
               ELSE /\ loadingBrands' = TRUE
                    /\ enrichInFlight' = enrichInFlight \cup
                          {[search |-> search, handler |-> handler, lat |-> lat,
                            lon |-> lon, stations |-> r.nearest]}
                    /\ requests' = Append(requests,
                          [search |-> search, service |-> "overpass"])
                    /\ notifications' = Append(notifications, first)

\* lines 41-55: the center taken from the stations of the postal code
\* (found = FALSE: centerLat and centerLon stay undefined)
stationCenter(code) ==
    LET matchingStations == SelectSeq(allStations, LAMBDA station : station.cp = code)
        stationsWithCoords ==
            SelectSeq(matchingStations, LAMBDA station : parseCoordinates(station).ok)
    IN  IF Len(stationsWithCoords) > 0
        THEN [found |-> TRUE,
              lat |-> parseCoordinates(stationsWithCoords[1]).lat,
              lon |-> parseCoordinates(stationsWithCoords[1]).lon]
        ELSE [found |-> FALSE, lat |-> NaN, lon |-> NaN]

\* line 34: !postalCode || postalCode.length !== 5
rejected(code) == Len(code) = 0 \/ Len(code) # 5

\* line 58: !centerLat
needsGeocoding(center) == ~center.found \/ ~Truthy(center.lat)

\* handleSearch up to its first await (lines 31-61)
handleSearch ==
    /\ UNCHANGED <<allStations, geolocation, postalCode, positionInFlight,
                   rankVars, enrichVars, cacheVars>>
    /\ \/ /\ rejected(postalCode)
          /\ error' = ERR_INVALID
          /\ UNCHANGED <<searchResults, loadingBrands, mapCenter, userLocation,
                         nearbyStations, geocodeInFlight, enrichInFlight, nSearch,
                         notifications, requests>>
       \/ /\ ~rejected(postalCode)
          /\ nSearch < MaxSearches
          /\ LET search == nSearch + 1
                 center == stationCenter(postalCode)
             IN  IF needsGeocoding(center)
                 THEN /\ geocodeInFlight' = geocodeInFlight \cup
                            {[search |-> search, postalCode |-> postalCode]}
                      /\ requests' = Append(requests,
                            [search |-> search, service |-> "geocode"])
                      /\ error' = ERR_SEARCHING
                      /\ nSearch' = search
                      /\ UNCHANGED <<searchResults, loadingBrands, mapCenter,
                                     userLocation, nearbyStations, enrichInFlight,
                                     notifications>>
                 ELSE /\ RankAndNotify(search, "onLocationFound", center.lat, center.lon)
                      /\ nSearch' = search
                      /\ UNCHANGED geocodeInFlight

\* a failed geocoding that leaves the displayed list alone
geocodeAnsweredKeepingList ==
    /\ UNCHANGED <<allStations, geolocation, postalCode, positionInFlight, nSearch,
                   rankVars, enrichVars, cacheVars>>
    /\ \E call \in geocodeInFlight :
        /\ geocodeInFlight' = geocodeInFlight \ {call}
        /\ \/ /\ error' \in {ERR_GEOCODE, ERR_NOT_FOUND}
              /\ UNCHANGED <<searchResults, loadingBrands, mapCenter, userLocation,
                             nearbyStations, enrichInFlight, notifications, requests>>
           \/ RankAndNotify(call.search, "onLocationFound", GEOCODED, LON0)

\* handleSearch from the answer of geo.api.gouv.fr on (lines 63-152)
geocodeAnswered ==
    /\ UNCHANGED <<allStations, geolocation, postalCode, positionInFlight, nSearch,
                   rankVars, enrichVars, cacheVars>>
    /\ \E call \in geocodeInFlight :
        /\ geocodeInFlight' = geocodeInFlight \ {call}
        /\ \/ \* the request failed or response.ok is false: the catch block
              /\ error' = ERR_GEOCODE
              /\ searchResults' = <<>>
              /\ UNCHANGED <<loadingBrands, mapCenter, userLocation, nearbyStations,
                             enrichInFlight, notifications, requests>>
           \/ \* communes is empty
              /\ error' = ERR_NOT_FOUND
              /\ searchResults' = <<>>
              /\ UNCHANGED <<loadingBrands, mapCenter, userLocation, nearbyStations,
                             enrichInFlight, notifications, requests>>
           \/ \* communes[0].centre.coordinates
              /\ RankAndNotify(call.search, "onLocationFound", GEOCODED, LON0)

\* handleUseMyLocation up to getCurrentPosition (lines 155-163)
handleUseMyLocation ==
    /\ UNCHANGED <<allStations, geolocation, postalCode, searchResults, loadingBrands,
                   mapCenter, userLocation, nearbyStations, geocodeInFlight,
                   enrichInFlight, notifications, requests, rankVars, enrichVars, cacheVars>>
    /\ \/ /\ ~geolocation
          /\ error' = ERR_UNSUPPORTED
          /\ UNCHANGED <<positionInFlight, nSearch>>
       \/ /\ geolocation
          /\ nSearch < MaxSearches
          /\ nSearch' = nSearch + 1
          /\ error' = ERR_LOCATING
          /\ positionInFlight' = positionInFlight \cup {[search |-> nSearch + 1]}

\* the success callback of getCurrentPosition (lines 164-232)
positionFound ==
    /\ UNCHANGED <<allStations, geolocation, postalCode, geocodeInFlight, nSearch,
                   rankVars, enrichVars, cacheVars>>
    /\ \E call \in positionInFlight :
        /\ positionInFlight' = positionInFlight \ {call}
        /\ RankAndNotify(call.search, "onUseMyLocation", POSITION, LON0)

\* an error callback that searches around a default center
positionFailedSearching ==
    /\ UNCHANGED <<allStations, geolocation, postalCode, geocodeInFlight, nSearch,
                   rankVars, enrichVars, cacheVars>>
    /\ \E call \in positionInFlight :
        /\ positionInFlight' = positionInFlight \ {call}
        /\ RankAndNotify(call.search, "onUseMyLocation", CENTER, LON0)

\* the error callback of getCurrentPosition (lines 233-235)
positionFailed ==
    /\ UNCHANGED <<allStations, geolocation, postalCode, searchResults, loadingBrands,
                   mapCenter, userLocation, nearbyStations, geocodeInFlight,
                   enrichInFlight, nSearch, notifications, requests,
                   rankVars, enrichVars, cacheVars>>
    /\ \E call \in positionInFlight :
        /\ positionInFlight' = positionInFlight \ {call}
        /\ error' = ERR_POSITION

\* what fetchOSMFuelStations can get for an enrichment of the component: the
\* request failed, or elements 30 m and 150 m north of CENTER
SearchOverpassResponses ==
    { [ok |-> FALSE, elements |-> <<>>],
      [ok |-> TRUE,
       elements |-> << [id |-> 1] @@ Element(3, Tags("Total", null, null)),
                       [id |-> 2] @@ Element(15, Tags("Esso", null, null)) >>] }

\* fetchOSMFuelStations from the answer to its request on (overpass.js lines
\* 38-72, an answer is cached), then the .then of enrichStationsWithBrands
\* (lines 121-134 / 206-218); the promise never rejects (overpass.js lines
\* 133-136), so the .catch never runs
enrichmentSettled ==
    /\ UNCHANGED <<allStations, geolocation, postalCode, error, geocodeInFlight,
                   positionInFlight, nSearch, requests, rankVars, enrichVars,
                   now, fuelPricesCache, cacheCalls, cacheLog, cacheReply>>
    /\ \E call \in enrichInFlight, response \in SearchOverpassResponses :
        LET result == enrichStationsWithBrands(call.stations,
                                               fetchOSMFuelStations(response))
        IN  /\ enrichInFlight' = enrichInFlight \ {call}
            /\ osmCache' = osmCacheAfter(cacheKey(call.lat, call.lon, DEFAULT_RADIUS),
                                         response)
            /\ searchResults' = result
            /\ loadingBrands' = FALSE
            /\ ParentNotified(call.handler, call.lat, call.lon, result)
            /\ notifications' = Append(notifications,
                    Notification(call.search, call.handler, "enriched",
                                 call.lat, call.lon, result))

Next ==
    \/ setPostalCode
    \/ handleSearch
    \/ geocodeAnswered
    \/ handleUseMyLocation
    \/ positionFound
    \/ positionFailed
    \/ enrichmentSettled

Spec == Init /\ [][Next]_vars

SpecResolve == InitResolve /\ [][Next]_vars

-----------------------------------------------------------------------------
(* The ranking on its own: lines 83-115 of handleSearch, 169-200 of            *)
(* handleUseMyLocation, applied once to a station set and a center             *)

InitRank ==
    /\ allStations \in OrderFeeds \cup ZoneFeeds \cup LongFeeds \cup CrowdFeeds
                        \cup GridFeeds
    /\ InitComponent
    /\ geolocation = TRUE
    /\ InitRankIdle
    /\ InitEnrichIdle
    /\ InitCaches

Rank ==
    /\ ~rankDone
    /\ \E r \in rankings(allStations, rankCenter, LON0) :
        /\ rankCandidates' = r.candidates
        /\ rankSorted' = r.sorted
        /\ rankNearest' = r.nearest
    /\ rankDone' = TRUE
    /\ UNCHANGED <<rankCenter, rankRuns, componentVars, enrichVars, cacheVars>>

\* a sort that may order the same array differently each time
sameBuildAnyOrder(first, again) == TRUE

\* the two calls are calls of one build: Array.prototype.sort is a function of
\* the array and of the comparator's results, also where the order is
\* implementation-defined, so that a sort of the same array gives the same order
sameBuild(first, again) ==
    again.input = first.input => again.output = first.output

\* one run of the pipeline on allStations and the center, recorded with what
\* its two sorts were given and returned; every sort agrees with the sorts of
\* the runs before it
RankRecorded ==
    LET input == <<allStations, rankCenter, LON0>>
    IN  \E byDistance \in sortByDistance(allStations, rankCenter, LON0) :
            /\ \A k \in 1..Len(rankRuns) :
                sameBuild([input |-> rankRuns[k].input,
                           output |-> rankRuns[k].byDistance],
                          [input |-> input, output |-> byDistance])
            /\ LET withPrices == candidatesOf(byDistance)
               IN  \E sorted \in sort(withPrices,
                                      [i, j \in DOMAIN withPrices |->
                                          hybridCompare(withPrices[i], withPrices[j])]) :
                    /\ \A k \in 1..Len(rankRuns) :
                        sameBuild([input |-> rankRuns[k].candidates,
                                   output |-> rankRuns[k].sorted],
                                  [input |-> withPrices, output |-> sorted])
                    /\ rankCandidates' = withPrices
                    /\ rankSorted' = sorted
                    /\ rankNearest' = slice10(sorted)
                    /\ rankRuns' = Append(rankRuns,
                                          [input |-> input, byDistance |-> byDistance,
                                           candidates |-> withPrices, sorted |-> sorted,
                                           nearest |-> slice10(sorted)])

\* the first run
RankFirst ==
    /\ ~rankDone
    /\ RankRecorded
    /\ rankDone' = TRUE
    /\ UNCHANGED <<rankCenter, componentVars, enrichVars, cacheVars>>

\* the same pipeline run a second time; the first run has left the station
\* set as it was (sortByDistance maps it to a new array, part_000 lines 45-52)
RankAgain ==
    /\ rankDone
    /\ Len(rankRuns) = 1
    /\ RankRecorded
    /\ UNCHANGED <<rankCenter, rankDone, componentVars, enrichVars, cacheVars>>

NextRank == Rank

SpecRank == InitRank /\ [][NextRank]_vars

-----------------------------------------------------------------------------
(* The ranking run twice on the same station set and center (PostalCodeSearch.js *)
(* lines 83-115): the first run is recorded, the second compared with it         *)

MaxRerunStations == 3

\* stations whose distances make either comparator inconsistent: 4 km apart with
\* the farther the cheaper, and one without usable coordinates
RerunPool ==
    { StationAt(CP_PARIS, 0, Price(180)),
      StationAt(CP_PARIS, 4 * KM, Price(175)),
      StationAt(CP_PARIS, 8 * KM, Price(170)),
      StationStr(CP_PARIS, <<"a", "b", "c">>, <<"a", "b", "c">>, Price(175)) }

RerunFeeds ==
    { Feed(r) : r \in SeqsUpTo(RerunPool, MaxRerunStations) }
        \cup LongFeeds \cup CrowdFeeds

InitRerun ==
    /\ allStations \in RerunFeeds
    /\ InitComponent
    /\ geolocation = TRUE
    /\ InitRankIdle
    /\ InitEnrichIdle
    /\ InitCaches

NextRerun ==
    \/ RankFirst
    \/ RankAgain

SpecRerun == InitRerun /\ [][NextRerun]_vars

-----------------------------------------------------------------------------
(* The two caches on their own: calls of fetchOSMFuelStations (overpass.js     *)
(* lines 14-73) and of GET /api/fuel-prices (server.js lines 103-135) as time *)
(* passes                                                                      *)

MaxCalls == 3

\* the instants of the runs after the start: the ages at which an entry of
\* this cache stored at the start is about to expire and has just expired
Instants(cache) ==
    IF cache = "osm"
    THEN { T0 + CACHE_DURATION - 1, T0 + CACHE_DURATION }
    ELSE { T0 + PRICES_TTL - 1, T0 + PRICES_TTL }

\* the latitudes fetchOSMFuelStations is called with: two in the same
\* thousandth of a degree, one elsewhere
CallLatitudes == { CENTER, CENTER + 3, GEOCODED }

\* the answers to an Overpass request of these runs: a failure, one station,
\* no station
CacheOverpassResponses ==
    { [ok |-> FALSE, elements |-> <<>>],
      [ok |-> TRUE, elements |-> << [id |-> 1] @@ Element(3, Tags("Total", null, null)) >>],
      [ok |-> TRUE, elements |-> <<>>] }

\* JSON.stringify({ filters }) of the requests of these runs: no filter, or a
\* postal code
PriceKeys == { <<>>, <<"code_postal", "75001">> }

\* what data.economie.gouv.fr answers to a search with these filters: a
\* failure (unreachable, non-2xx: axios throws), or the records of these
\* filters as they are at that moment
OdsAnswers(key) ==
    { [ok |-> FALSE, data |-> <<>>],
      [ok |-> TRUE, data |-> <<key, "records A">>],
      [ok |-> TRUE, data |-> <<key, "records B">>] }

\* a slot written with the key of the slot it replaces
pricesStoredKeepingKey(call, data) ==
    [data |-> data, timestamp |-> call.startedAt, key |-> fuelPricesCache.key]

\* line 126: fuelPricesCache = { data, timestamp: now, key: cacheKey }, with
\* the `now` and the `cacheKey` of this request (lines 114-115)
pricesStored(call, data) ==
    [data |-> data, timestamp |-> call.startedAt, key |-> call.key]

\* lines 130-133: res.status(500).json({ error, details }): the fields of the
\* body, then the message
FAILED_TO_FETCH ==
    [status |-> 500, json |-> << <<"error", "details">>, "Failed to fetch fuel prices" >>]

\* lines 122, 127: res.json(data)
ok200(data) == [status |-> 200, json |-> data]

\* a handler that answers a failure of the feed like data
answeredAlways200(answer) == ok200(answer.data)

\* lines 125-134: the data of odsSearch, or the catch block when it threw
answered(answer) == IF answer.ok THEN ok200(answer.data) ELSE FAILED_TO_FETCH

\* history: the calls started so far
callsStarted ==
    Len(SelectSeq(cacheLog, LAMBDA e : e.kind \in {"cached", "request"}))

\* history: a call with these arguments returned this value from the cache, or
\* sent its request
CacheEvent(id, cache, args, key, kind, value) ==
    [id |-> id, at |-> now, cache |-> cache, args |-> args, key |-> key,
     kind |-> kind, value |-> value]

\* a run exercises one of the two caches: the OSM cache lives in the browser,
\* the price cache in the server process, and they share no state
OnlyCache(cache) ==
    \A i \in 1..Len(cacheLog) : cacheLog[i].cache = cache

InitCache ==
    /\ allStations = <<>>
    /\ InitComponent
    /\ geolocation = TRUE
    /\ InitRankIdle
    /\ InitEnrichIdle
    /\ InitCaches

\* time passes, once the first call has been made
tick ==
    /\ Len(cacheLog) > 0
    /\ \E t \in Instants(cacheLog[1].cache) : t > now /\ now' = t
    /\ UNCHANGED <<osmCache, fuelPricesCache, cacheCalls, cacheLog, cacheReply,
                   componentVars, rankVars, enrichVars>>

\* fetchOSMFuelStations(lat, lon) up to its return from the cache or its
\* `await fetch` (overpass.js lines 14-36)
fetchOSMCalled ==
    /\ callsStarted < MaxCalls
    /\ OnlyCache("osm")
    /\ \E lat \in CallLatitudes :
        LET id == callsStarted + 1
            key == cacheKey(lat, LON0, DEFAULT_RADIUS)
        IN  IF osmCached(key) # {}
            THEN /\ cacheLog' = Append(cacheLog,
                        CacheEvent(id, "osm", <<lat, LON0, DEFAULT_RADIUS>>, key,
                                   "cached",
                                   (CHOOSE cached \in osmCached(key) : TRUE).data))
                 /\ cacheCalls' = cacheCalls
            ELSE /\ cacheLog' = Append(cacheLog,
                        CacheEvent(id, "osm", <<lat, LON0, DEFAULT_RADIUS>>, key,
                                   "request", <<>>))
                 /\ cacheCalls' = cacheCalls \cup {[id |-> id, cache |-> "osm", key |-> key,
                                                   startedAt |-> now]}
    /\ UNCHANGED <<now, osmCache, fuelPricesCache, cacheReply, componentVars, rankVars,
                   enrichVars>>

\* fetchOSMFuelStations from the answer to its request on (lines 38-72)
fetchOSMAnswered ==
    /\ \E call \in cacheCalls, response \in CacheOverpassResponses :
        /\ call.cache = "osm"
        /\ cacheCalls' = cacheCalls \ {call}
        /\ osmCache' = osmCacheAfter(call.key, response)
        /\ cacheReply' = [id |-> call.id, cache |-> "osm", key |-> call.key,
                          ok |-> response.ok, body |-> fetchOSMFuelStations(response)]
    /\ UNCHANGED <<now, fuelPricesCache, cacheLog, componentVars, rankVars, enrichVars>>

\* GET /api/fuel-prices up to res.json(fuelPricesCache.data) or to the
\* `await axios.get` of odsSearch (server.js lines 103-125, 33-53)
getFuelPrices ==
    /\ callsStarted < MaxCalls
    /\ OnlyCache("prices")
    /\ \E key \in PriceKeys :
        LET id == callsStarted + 1
        IN  IF pricesCached(key)
            THEN /\ cacheLog' = Append(cacheLog,
                        CacheEvent(id, "prices", key, key, "cached", fuelPricesCache.data))
                 /\ cacheCalls' = cacheCalls
            ELSE /\ cacheLog' = Append(cacheLog,
                        CacheEvent(id, "prices", key, key, "request", <<>>))
                 /\ cacheCalls' = cacheCalls \cup {[id |-> id, cache |-> "prices",
                                                   key |-> key, startedAt |-> now]}
    /\ UNCHANGED <<now, osmCache, fuelPricesCache, cacheReply, componentVars, rankVars,
                   enrichVars>>

\* GET /api/fuel-prices from the answer of odsSearch on (lines 125-134); the
\* timestamp stored is the one taken at line 115
odsSearchAnswered ==
    /\ \E call \in cacheCalls :
        \E answer \in OdsAnswers(call.key) :
            /\ call.cache = "prices"
            /\ cacheCalls' = cacheCalls \ {call}
            /\ fuelPricesCache' = IF answer.ok
                                  THEN pricesStored(call, answer.data)
                                  ELSE fuelPricesCache
            /\ cacheReply' = [id |-> call.id, cache |-> "prices", key |-> call.key,
                              ok |-> answer.ok,
                              body |-> answered(answer)]
    /\ UNCHANGED <<now, osmCache, cacheLog, componentVars, rankVars, enrichVars>>

NextCache ==
    \/ tick
    \/ fetchOSMCalled
    \/ fetchOSMAnswered
    \/ getFuelPrices
    \/ odsSearchAnswered

SpecCache == InitCache /\ [][NextCache]_vars

-----------------------------------------------------------------------------
(* Properties of the ranking (SpecRank) *)

\* distance of a station of the feed from the ranking's center
FromCenter(station) ==
    LET coords == parseCoordinates(station)
    IN  IF ~coords.ok THEN Infinity
        ELSE calculateDistance(rankCenter, LON0, coords.lat, coords.lon)

\* the stations of the feed that have a price and lie within km of the center
PricedIds(km) ==
    { i \in DOMAIN allStations :
        /\ allStations[i].prix.kind = "number"
        /\ JsLeq(FromCenter(allStations[i]), km * KM) }

Ids(list) == { list[k].id : k \in DOMAIN list }

\* C1: in the ranked list, of two stations whose distances from the center differ
\* by more than 5 km the closer one comes first, whatever the prices and the
\* other stations of the list.
C1_CloserFirstBeyond5km ==
    rankDone =>
        \A i, j \in DOMAIN rankNearest :
            rankNearest[j].distance - rankNearest[i].distance > TIE_BREAK_KM * KM
                => i < j

\* C2: in the ranked list, of two stations whose distances from the center differ
\* by at most 5 km the one with the lower price comes first, whatever the other
\* stations of the list.
C2_CheaperFirstWithin5km ==
    rankDone =>
        \A i, j \in DOMAIN rankNearest :
            ( /\ Abs(rankNearest[j].distance - rankNearest[i].distance) <= TIE_BREAK_KM * KM
              /\ rankNearest[i].prix.value < rankNearest[j].prix.value )
                => i < j

\* C4: every station of the ranked list has a price that is neither null nor
\* empty and lies within 50 km of the center, or within 100 km when fewer than 5
\* priced stations lie within 50 km; a station whose price is null is never in
\* the list.
C4_ResultPricedAndInRadius ==
    rankDone =>
        LET limit == IF Cardinality(PricedIds(MAX_DISTANCE_KM)) < MIN_STATIONS
                     THEN RELAXED_DISTANCE_KM ELSE MAX_DISTANCE_KM
        IN  /\ \A k \in DOMAIN rankNearest :
                /\ rankNearest[k].id \in DOMAIN allStations
                /\ allStations[rankNearest[k].id].prix.kind = "number"
                /\ rankNearest[k].prix = allStations[rankNearest[k].id].prix
                /\ JsLeq(FromCenter(allStations[rankNearest[k].id]), limit * KM)
            /\ \A i \in DOMAIN allStations :
                allStations[i].prix = PriceNull => i \notin Ids(rankNearest)

\* a ranked list that holds a station beyond 50 km, from a feed with a station
\* 10 km away whose price is null
C4_Witness ==
    /\ rankDone
    /\ \E k \in DOMAIN rankNearest : rankNearest[k].distance > MAX_DISTANCE_KM * KM
    /\ \E i \in DOMAIN allStations :
        /\ allStations[i].prix = PriceNull
        /\ FromCenter(allStations[i]) = 10 * KM

\* C5: with fewer than 5 priced stations within 50 km, the candidates before the
\* sort are exactly the priced stations within 100 km, each once; with 5 or more,
\* no station beyond 50 km is in the result.
C5_RadiusRelaxation ==
    rankDone =>
        IF Cardinality(PricedIds(MAX_DISTANCE_KM)) < MIN_STATIONS
        THEN /\ Ids(rankCandidates) = PricedIds(RELAXED_DISTANCE_KM)
             /\ Len(rankCandidates) = Cardinality(PricedIds(RELAXED_DISTANCE_KM))
        ELSE /\ Ids(rankCandidates) = PricedIds(MAX_DISTANCE_KM)
             /\ \A k \in DOMAIN rankNearest :
                    JsLeq(FromCenter(allStations[rankNearest[k].id]), MAX_DISTANCE_KM * KM)

\* a relaxed ranking: some but fewer than 5 priced stations within 50 km, one
\* between 50 and 100 km that is a candidate, one beyond 100 km that is not
C5_Witness ==
    /\ rankDone
    /\ Cardinality(PricedIds(MAX_DISTANCE_KM)) \in 1..(MIN_STATIONS - 1)
    /\ \E k \in DOMAIN rankCandidates : rankCandidates[k].distance > MAX_DISTANCE_KM * KM
    /\ \E i \in DOMAIN allStations :
        /\ allStations[i].prix.kind = "number"
        /\ FromCenter(allStations[i]) = RELAXED_DISTANCE_KM * KM + 1

\* a ranking that was not relaxed although the feed holds a priced station
\* between 50 and 100 km
C5_WitnessNotRelaxed ==
    /\ rankDone
    /\ Cardinality(PricedIds(MAX_DISTANCE_KM)) >= MIN_STATIONS
    /\ PricedIds(RELAXED_DISTANCE_KM) # PricedIds(MAX_DISTANCE_KM)

\* C17: the ranked list has at most 10 entries, it is the first 10 entries of
\* the sorted candidates, and each entry is its station of the feed, field for
\* field, plus a distance field holding the distance from the center
C17_FirstTenWithDistance ==
    rankDone =>
        /\ Len(rankNearest) <= MAX_RESULTS
        /\ Len(rankSorted) = Len(rankCandidates)
        /\ Ids(rankSorted) = Ids(rankCandidates)
        /\ Len(rankNearest) = IF Len(rankSorted) < 10 THEN Len(rankSorted) ELSE 10
        /\ \A k \in DOMAIN rankNearest :
            LET entry == rankNearest[k]
                station == allStations[entry.id]
            IN  /\ entry = rankSorted[k]
                /\ DOMAIN entry = DOMAIN station \cup {"distance"}
                /\ \A field \in DOMAIN station : entry[field] = station[field]
                /\ entry.distance = FromCenter(station)

\* eleven candidates, the closest one last in the feed: the ranked list holds
\* ten of them, the closest first
C17_Witness ==
    /\ rankDone
    /\ Len(rankSorted) = 11
    /\ Len(rankNearest) = 10
    /\ rankNearest[1].id = 11
    /\ rankNearest[1].distance = 0

\* C20: when all candidates are at the same distance from the center, the
\* ranked list is in ascending order of price, and stations of equal price keep
\* the order they have in the station set
C20_EqualDistanceStableThenPrice ==
    (rankDone /\ \A i, j \in DOMAIN rankCandidates :
                    rankCandidates[i].distance = rankCandidates[j].distance)
        => \A i, j \in DOMAIN rankNearest :
              i < j =>
                  \/ rankNearest[i].prix.value < rankNearest[j].prix.value
                  \/ /\ rankNearest[i].prix.value = rankNearest[j].prix.value
                     /\ rankNearest[i].id < rankNearest[j].id

-----------------------------------------------------------------------------
(* enrichStationsWithBrands on its own: applied once to a ranked list and an     *)
(* Overpass answer                                                             *)

MaxEnrichStations == 2

MaxPois == 2

\* a station record that already carries a brand
Branded(station, brand) == [station EXCEPT !.brand = brand]

\* ranked stations at the center (one of them with a brand of its own) and
\* 300 m north of it
EnrichPool ==
    { StationAt(CP_PARIS, 0, Price(180)), StationAt(CP_PARIS, 30, Price(175)),
      Branded(StationAt(CP_PARIS, 0, Price(185)), "Avia") }

RankedLists ==
    { [k \in 1..Len(r) |-> withDistance(Feed(r)[k], CENTER, LON0)] :
        r \in SeqsUpTo(EnrichPool, MaxEnrichStations) }

\* points of interest 30, 80, 100 and 150 m from the first station, 80 m from
\* the second, with a brand, an operator only, a name only, or no tag at all
PoiPool ==
    { Element(8, Tags("Total", null, null)),
      Element(8, Tags(null, null, null)),
      Element(10, Tags("Esso", null, null)),
      Element(15, Tags("Shell", null, null)),
      Element(3, Tags(null, "Carrefour", "Carrefour Market")),
      Element(-8, Tags(null, null, "Station du Centre")),
      Element(38, Tags("BP", "BP France", null)) }

\* the answers to the Overpass request: a failure, or a list of elements
OverpassResponses ==
    { [ok |-> FALSE, elements |-> <<>>] }
    \cup { [ok |-> TRUE, elements |-> [k \in 1..Len(e) |-> [id |-> k] @@ e[k]]] :
            e \in SeqsUpTo(PoiPool, MaxPois) }

InitEnrich ==
    /\ allStations = <<>>
    /\ InitComponent
    /\ geolocation = TRUE
    /\ InitRankIdle
    /\ apiStations \in RankedLists
    /\ overpassResponse \in OverpassResponses
    /\ enriched = <<>>
    /\ enrichDone = FALSE
    /\ InitCaches

Enrich ==
    /\ ~enrichDone
    /\ enriched' = enrichStationsWithBrands(apiStations,
                                            fetchOSMFuelStations(overpassResponse))
    /\ enrichDone' = TRUE
    /\ UNCHANGED <<apiStations, overpassResponse, componentVars, rankVars, cacheVars>>

NextEnrich == Enrich

SpecEnrich == InitEnrich /\ [][NextEnrich]_vars

-----------------------------------------------------------------------------
(* Properties of the enrichment (SpecEnrich) *)

\* metres from a station to an element of the Overpass answer
MetresTo(station, element) == Abs(element.lat - station.geom[1]) * M_PER_UNIT

\* the label an element offers: its brand, else its operator, else its name
Label(element) ==
    IF element.tags.brand # null THEN element.tags.brand
    ELSE IF element.tags.operator # null THEN element.tags.operator
    ELSE element.tags.name

\* the elements nearest to a station
Nearest(station) ==
    LET els == overpassResponse.elements
    IN  { k \in DOMAIN els :
            \A j \in DOMAIN els : MetresTo(station, els[k]) <= MetresTo(station, els[j]) }

\* C10: a candidate whose nearest point of interest is 100 m or more away (or
\* that has none) is returned unchanged; one whose nearest point of interest is
\* less than 100 m away and offers a brand, operator or name gets that label as
\* its brand; a brand is only ever attached from a nearest point of interest
\* less than 100 m away.
C10_NearestWithin100m ==
    enrichDone =>
        /\ Len(enriched) = Len(apiStations)
        /\ \A k \in DOMAIN apiStations :
            LET station == apiStations[k]
                els == overpassResponse.elements
                near == Nearest(station)
            IN  /\ (\A j \in near : MetresTo(station, els[j]) >= MATCH_RADIUS_M)
                        => enriched[k] = station
                /\ ( /\ near # {}
                     /\ \A j \in near : /\ MetresTo(station, els[j]) < MATCH_RADIUS_M
                                        /\ Label(els[j]) # null )
                        => /\ enriched[k].brand \in { Label(els[j]) : j \in near }
                           /\ enriched[k].brandSource = "osm"
                /\ enriched[k] # station
                        => \E j \in near :
                            /\ MetresTo(station, els[j]) < MATCH_RADIUS_M
                            /\ enriched[k].brand = Label(els[j])

\* the first station has points of interest 80 m and 150 m away and got the
\* brand of the one 80 m away; the second one's nearest is 150 m away and it
\* was returned unchanged
C10_Witness ==
    /\ enrichDone
    /\ Len(apiStations) = 2
    /\ apiStations[1].geom[1] = CENTER
    /\ apiStations[2].geom[1] = CENTER + 30
    /\ { MetresTo(apiStations[1], overpassResponse.elements[j]) :
            j \in DOMAIN overpassResponse.elements } = {80, 150}
    /\ enriched[1].brand = "Total"
    /\ enriched[2] = apiStations[2]

\* C11: when the Overpass request fails or its answer holds no point of
\* interest, enrichStationsWithBrands resolves with the list it was given,
\* unmodified; whatever the answer, it resolves
C11_FailureKeepsList ==
    /\ ~enrichDone => ENABLED Enrich
    /\ (enrichDone /\ (~overpassResponse.ok \/ Len(overpassResponse.elements) = 0))
          => enriched = apiStations

\* two ranked stations whose Overpass request failed come back as they were
C11_Witness ==
    /\ enrichDone
    /\ ~overpassResponse.ok
    /\ Len(apiStations) = 2
    /\ enriched = apiStations

\* C12: a station whose brand is not null before the enrichment has a brand
\* that is not null in the list the enrichment returns
C12_BrandNeverLost ==
    enrichDone =>
        /\ Len(enriched) = Len(apiStations)
        /\ \A k \in DOMAIN apiStations :
              apiStations[k].brand # null =>
                  /\ "brand" \in DOMAIN enriched[k]
                  /\ enriched[k].brand # null

\* a station with a brand whose only point of interest, 80 m away, has no tag:
\* it keeps its brand
C12_Witness ==
    /\ enrichDone
    /\ Len(apiStations) >= 1
    /\ apiStations[1].brand = "Avia"
    /\ Len(overpassResponse.elements) = 1
    /\ MetresTo(apiStations[1], overpassResponse.elements[1]) = 80
    /\ Label(overpassResponse.elements[1]) = null
    /\ enriched[1].brand = "Avia"

\* the element a station is matched to: the first of its nearest elements when
\* they are less than 100 m away (0: none)
Matched(station) ==
    LET els == overpassResponse.elements
        near == Nearest(station)
    IN  IF near # {} /\ \A j \in near : MetresTo(station, els[j]) < MATCH_RADIUS_M
        THEN CHOOSE j \in near : \A i \in near : j <= i
        ELSE 0

\* C19: a matched station gets the brand tag of its point of interest, else
\* its operator tag, else its name tag, and brandSource 'osm'; when the point
\* of interest has none of the three the station is returned unchanged
C19_BrandOperatorName ==
    enrichDone =>
        \A k \in DOMAIN apiStations :
            LET station == apiStations[k]
                j == Matched(station)
                tags == overpassResponse.elements[j].tags
            IN  j # 0 =>
                  IF tags.brand # null
                  THEN enriched[k].brand = tags.brand /\ enriched[k].brandSource = "osm"
                  ELSE IF tags.operator # null
                  THEN enriched[k].brand = tags.operator /\ enriched[k].brandSource = "osm"
                  ELSE IF tags.name # null
                  THEN enriched[k].brand = tags.name /\ enriched[k].brandSource = "osm"
                  ELSE enriched[k] = station

\* a station matched to a point of interest 30 m away that has an operator and
\* a name but no brand: it got the operator
C19_Witness ==
    /\ enrichDone
    /\ Len(apiStations) >= 1
    /\ Matched(apiStations[1]) # 0
    /\ LET tags == overpassResponse.elements[Matched(apiStations[1])].tags
       IN  tags.brand = null /\ tags.operator = "Carrefour" /\ tags.name # null
    /\ enriched[1].brand = "Carrefour"
    /\ enriched[1].brandSource = "osm"

-----------------------------------------------------------------------------
(* Properties of the component                                                 *)

\* exactly five characters, each a decimal digit
FiveDigits(code) == Len(code) = 5 /\ \A i \in 1..Len(code) : code[i] \in Digits

\* the station has coordinates and both parse to a number
ValidCoords(station) ==
    LET coords == parseCoordinates(station)
    IN  coords.ok /\ coords.lat # NaN /\ coords.lon # NaN

\* the notifications of one search, in the order the parent got them
NotificationsOf(search) ==
    SelectSeq(notifications, LAMBDA n : n.search = search)

\* C3: once a newer search has been started, the settling of an older
\* search's enrichment leaves searchResults alone and notifies nobody
C3_StaleEnrichmentDiscarded ==
    [][\A call \in enrichInFlight :
          (call.search < nSearch /\ call \notin enrichInFlight')
              => (searchResults' = searchResults /\ notifications' = notifications)]_vars

\* C6: handleSearch on a postal code that is not five digits sets the
\* invalid-input error and starts nothing: no geocoding request, no ranking, no
\* enrichment, no notification
C6_RejectsNonFiveDigitCodes ==
    [][(handleSearch /\ ~FiveDigits(postalCode))
          => /\ error' = ERR_INVALID
             /\ UNCHANGED <<searchResults, geocodeInFlight, enrichInFlight,
                            notifications, requests, nSearch>>]_vars

\* the stations of the postal code that have valid coordinates, in feed order
ValidMatches(code) ==
    SelectSeq(allStations, LAMBDA station : station.cp = code /\ ValidCoords(station))

\* the geocoding requests sent so far
GeocodeSent == SelectSeq(requests, LAMBDA r : r.service = "geocode")

\* C7: a search by postal code that has a station of that postal code with
\* valid coordinates takes the first such station's coordinates as center and
\* sends no geocoding request; otherwise it sends exactly one geocoding request,
\* and the center is the one the geocoding service answers
C7_CenterResolution ==
    [][/\ (handleSearch /\ nSearch' = nSearch + 1) =>
            LET valid == ValidMatches(postalCode)
                call == [search |-> nSearch', postalCode |-> postalCode]
            IN  IF Len(valid) > 0
                THEN /\ GeocodeSent' = GeocodeSent
                     /\ geocodeInFlight' = geocodeInFlight
                     /\ mapCenter' = <<parseCoordinates(valid[1]).lat,
                                       parseCoordinates(valid[1]).lon>>
                ELSE /\ requests' = Append(requests,
                            [search |-> nSearch', service |-> "geocode"])
                     /\ geocodeInFlight' = geocodeInFlight \cup {call}
                     /\ notifications' = notifications
       /\ (geocodeAnswered /\ notifications' # notifications) =>
            mapCenter' = <<GEOCODED, LON0>>]_vars

\* C8: the center of a search is never taken from coordinates that do not
\* parse to numbers, and every station of a ranked list has valid coordinates
C8_UnparseableCoordinatesUnused ==
    \A k \in DOMAIN notifications :
        /\ notifications[k].lat # NaN
        /\ notifications[k].lon # NaN
        /\ \A i \in DOMAIN notifications[k].stations :
              ValidCoords(notifications[k].stations[i])

\* an enrichment of the search has been started and has not settled
EnrichmentPending(search) == \E call \in enrichInFlight : call.search = search

\* C9: the parent gets the ranked list of a search, without brands, before it
\* gets the enriched list, which comes as a second notification with the same
\* stations in the same order: one notification while the enrichment is in
\* flight, two once it has settled.  The ranked list is displayed in the step
\* that makes the first notification, while the enrichment is still in flight;
\* when nothing has to be waited for (an empty list, a center in the OSM
\* cache) the second notification follows in the same step and its list is
\* the one displayed.
C9_InitialBeforeEnriched ==
    /\ [](\A search \in 1..nSearch :
            LET ns == NotificationsOf(search)
            IN  /\ Len(ns) <= 2
                /\ Len(ns) >= 1 =>
                      /\ ns[1].stage = "initial"
                      /\ \A i \in DOMAIN ns[1].stations :
                            "brandSource" \notin DOMAIN ns[1].stations[i]
                /\ EnrichmentPending(search) =>
                      /\ Len(ns) = 1
                      /\ \A call \in enrichInFlight :
                            call.search = search => ns[1].stations = call.stations
                /\ (Len(ns) >= 1 /\ ~EnrichmentPending(search)) =>
                      /\ Len(ns) = 2
                      /\ ns[2].stage = "enriched"
                      /\ ns[2].handler = ns[1].handler
                      /\ <<ns[2].lat, ns[2].lon>> = <<ns[1].lat, ns[1].lon>>
                      /\ [i \in DOMAIN ns[2].stations |-> ns[2].stations[i].id]
                            = [i \in DOMAIN ns[1].stations |-> ns[1].stations[i].id])
    /\ [][\A k \in DOMAIN notifications' :
            (k > Len(notifications) /\ notifications'[k].stage = "initial") =>
                IF k = Len(notifications')
                THEN /\ searchResults' = notifications'[k].stations
                     /\ Len(notifications'[k].stations) > 0
                     /\ \E call \in enrichInFlight' :
                          call.search = notifications'[k].search
                ELSE /\ notifications'[k + 1].stage = "enriched"
                     /\ notifications'[k + 1].search = notifications'[k].search
                     /\ searchResults' = notifications'[k + 1].stations
                     /\ \/ Len(notifications'[k].stations) = 0
                        \/ osmCached(cacheKey(notifications'[k].lat,
                                              notifications'[k].lon,
                                              DEFAULT_RADIUS)) # {}]_vars

\* C9: a search has notified the parent twice, first with the station without
\* brand and then with the brand found by the enrichment
C9_Witness ==
    \E search \in 1..nSearch :
        LET ns == NotificationsOf(search)
        IN  /\ Len(ns) = 2
            /\ Len(ns[1].stations) > 0
            /\ ns[1].stations[1].brand = null
            /\ ns[2].stations[1].brand = "Total"

\* the geocoding requests sent for a search
GeocodeRequests(search) ==
    SelectSeq(requests, LAMBDA r : r.search = search /\ r.service = "geocode")

\* C15: a geocoding call that ends without a center (service unreachable,
\* non-2xx answer, no commune) leaves a failure message, clears searchResults,
\* starts no enrichment, notifies nobody and sends no other request; no search
\* ever sends a second geocoding request
C15_GeocodingFailureIsTerminal ==
    /\ [](\A search \in 1..nSearch : Len(GeocodeRequests(search)) <= 1)
    /\ [][\A call \in geocodeInFlight :
            (call \notin geocodeInFlight' /\ Len(NotificationsOf(call.search)') = 0) =>
                /\ error' \in {ERR_GEOCODE, ERR_NOT_FOUND}
                /\ searchResults' = <<>>
                /\ geocodeInFlight' = geocodeInFlight \ {call}
                /\ UNCHANGED <<enrichInFlight, notifications, requests, mapCenter,
                               userLocation, nearbyStations, nSearch>>]_vars

\* a first search displayed a station; the second one's only geocoding request
\* failed and the display was cleared
C15_Witness ==
    /\ nSearch = 2
    /\ Len(NotificationsOf(1)) >= 1
    /\ Len(NotificationsOf(1)[1].stations) > 0
    /\ Len(GeocodeRequests(2)) = 1
    /\ Len(NotificationsOf(2)) = 0
    /\ geocodeInFlight = {}
    /\ error = ERR_GEOCODE
    /\ searchResults = <<>>

\* the Overpass requests sent for a search
OverpassRequests(search) ==
    SelectSeq(requests, LAMBDA r : r.search = search /\ r.service = "overpass")

Displayed == <<error, searchResults, loadingBrands>>

\* C16: a search whose ranked list is empty displays an empty list, reports no
\* failure, and leaves the display different from the one of a component that
\* has not searched: the user can tell that no station was found
C16_NoStationsFoundSignalled ==
    [][\A k \in DOMAIN notifications' :
          (/\ k > Len(notifications)
           /\ notifications'[k].stage = "initial"
           /\ Len(notifications'[k].stations) = 0) =>
              /\ searchResults' = <<>>
              /\ error' \notin {ERR_INVALID, ERR_NOT_FOUND, ERR_GEOCODE,
                                ERR_UNSUPPORTED, ERR_POSITION}
              /\ Displayed' # <<"", <<>>, FALSE>>]_vars

-----------------------------------------------------------------------------
(* Properties of the caches (SpecCache) *)

\* the call that starts in this step, if one does
Starting == cacheLog'[Len(cacheLog')]

\* C13: the OSM cache is keyed by the latitude and the longitude rounded to
\* three decimals and by the radius; a call whose key was stored less than 24
\* hours earlier returns the stored stations without a request, and a call
\* whose key was never stored, or was stored 24 hours earlier or more, sends
\* a new request.
C13_OsmCacheKeyAndAge ==
    [][ (Len(cacheLog') = Len(cacheLog) + 1 /\ Starting.cache = "osm") =>
          LET call == Starting
              key == <<toFixed3(call.args[1]), toFixed3(call.args[2]), call.args[3]>>
              stored == { cached \in osmCache :
                            /\ cached.key = key
                            /\ now - cached.timestamp < 24 * 60 * 60 * 1000 }
          IN  IF stored # {}
              THEN /\ call.kind = "cached"
                   /\ \E cached \in stored : call.value = cached.data
                   /\ cacheCalls' = cacheCalls
              ELSE /\ call.kind = "request"
                   /\ \E sent \in cacheCalls' \ cacheCalls :
                        sent.id = call.id /\ sent.key = key ]_vars

\* an entry stored at T0 has served a call for another latitude of the same
\* thousandth of a degree just under 24 hours later
C13_Witness ==
    /\ now = T0 + CACHE_DURATION - 1
    /\ \E cached \in osmCache, i \in 1..Len(cacheLog) :
        /\ cached.timestamp = T0
        /\ cached.data # <<>>
        /\ cacheLog[i].kind = "cached"
        /\ cacheLog[i].key = cached.key
        /\ cacheLog[i].value = cached.data
        /\ \E j \in 1..(i - 1) :
            /\ cacheLog[j].kind = "request"
            /\ cacheLog[j].key = cached.key
            /\ cacheLog[j].args # cacheLog[i].args

\* C14: both caches are shared by all callers of the process: a caller that
\* finds a valid entry receives the value of that entry, which it leaves in
\* place for the next caller, and sends nothing upstream; a caller that misses
\* sends exactly one upstream request of its own, also when another caller's
\* request for the same key is still in flight.
C14_SharedCachesNoCoalescing ==
    /\ [](\A c1, c2 \in cacheCalls : c1.id = c2.id => c1 = c2)
    /\ [][ Len(cacheLog') = Len(cacheLog) + 1 =>
             LET call == Starting
                 valid ==
                    IF call.cache = "osm"
                    THEN { cached.data : cached \in
                             { c \in osmCache : /\ c.key = call.key
                                                /\ now - c.timestamp < CACHE_DURATION } }
                    ELSE IF /\ fuelPricesCache.data # NoData
                            /\ fuelPricesCache.key = call.key
                            /\ now - fuelPricesCache.timestamp < PRICES_TTL
                         THEN { fuelPricesCache.data }
                         ELSE {}
             IN  /\ osmCache' = osmCache
                 /\ fuelPricesCache' = fuelPricesCache
                 /\ IF valid # {}
                    THEN /\ call.kind = "cached"
                         /\ valid = { call.value }
                         /\ cacheCalls' = cacheCalls
                    ELSE /\ call.kind = "request"
                         /\ Cardinality(cacheCalls' \ cacheCalls) = 1
                         /\ cacheCalls \subseteq cacheCalls'
                         /\ \A sent \in cacheCalls' \ cacheCalls :
                              /\ sent.id = call.id
                              /\ sent.cache = call.cache
                              /\ sent.key = call.key ]_vars

\* two callers missed the same price key while the first one's request was in
\* flight (the second one's still is), and a third caller was served the
\* entry the first one stored
C14_Witness ==
    /\ now = T0
    /\ Len(cacheLog) = 3
    /\ cacheLog[1].cache = "prices"
    /\ cacheLog[1].kind = "request"
    /\ cacheLog[2].kind = "request"
    /\ cacheLog[2].key = cacheLog[1].key
    /\ cacheLog[3].kind = "cached"
    /\ cacheLog[3].key = cacheLog[1].key
    /\ cacheLog[3].value = fuelPricesCache.data
    /\ \E sent \in cacheCalls : sent.id = 2

\* the call answered in this step, if one is
Answered == { call \in cacheCalls : call \notin cacheCalls' }

\* C21: when the price feed is unreachable or answers non-2xx, the caller of
\* GET /api/fuel-prices gets status 500 with an error body and no data, and
\* the cache slot is left as it was.
C21_FeedFailureSurfaced ==
    [][\A call \in Answered :
          (call.cache = "prices" /\ ~cacheReply'.ok) =>
              /\ cacheReply'.id = call.id
              /\ cacheReply'.body.status = 500
              /\ cacheReply'.body.json[1] = <<"error", "details">>
              /\ \A answer \in OdsAnswers(call.key) :
                    answer.ok => cacheReply'.body.json # answer.data
              /\ fuelPricesCache' = fuelPricesCache]_vars

\* the slot holds the data of the first request; the feed failed for a later
\* one, which was answered 500
C21_Witness ==
    /\ fuelPricesCache.data # NoData
    /\ cacheReply.cache = "prices"
    /\ cacheReply.id > 1
    /\ ~cacheReply.ok
    /\ cacheReply.body.status = 500

\* C26: GET /api/fuel-prices answers from the cache exactly when the slot
\* holds data, the slot's key is the request's filter key and the slot's
\* timestamp is less than 10 minutes old; otherwise it fetches upstream, and
\* the answer of the feed replaces the slot.  No answer from the cache is 10
\* minutes old or older.
C26_PricesCacheExpiry ==
    /\ [](\A i \in 1..Len(cacheLog) :
            (cacheLog[i].cache = "prices" /\ cacheLog[i].kind = "cached") =>
                \E j \in 1..(i - 1) :
                    /\ cacheLog[j].kind = "request"
                    /\ cacheLog[j].key = cacheLog[i].key
                    /\ cacheLog[i].at - cacheLog[j].at < 10 * 60 * 1000)
    /\ [][/\ (Len(cacheLog') = Len(cacheLog) + 1 /\ Starting.cache = "prices") =>
              IF /\ fuelPricesCache.data # NoData
                 /\ fuelPricesCache.key = Starting.key
                 /\ now - fuelPricesCache.timestamp < 10 * 60 * 1000
              THEN /\ Starting.kind = "cached"
                   /\ Starting.value = fuelPricesCache.data
                   /\ cacheCalls' = cacheCalls
                   /\ fuelPricesCache' = fuelPricesCache
              ELSE /\ Starting.kind = "request"
                   /\ \E sent \in cacheCalls' \ cacheCalls : sent.id = Starting.id
          /\ \A call \in Answered :
              (call.cache = "prices" /\ cacheReply'.ok) =>
                  /\ fuelPricesCache'.key = call.key
                  /\ fuelPricesCache'.data = cacheReply'.body.json
                  /\ fuelPricesCache'.timestamp = call.startedAt]_vars

\* the slot written by the first request served a second request just under
\* 10 minutes later, and a third request 10 minutes after the first one was
\* sent upstream
C26_Witness ==
    /\ Len(cacheLog) = 3
    /\ cacheLog[1].cache = "prices"
    /\ cacheLog[1].kind = "request"
    /\ cacheLog[1].at = T0
    /\ cacheLog[2].kind = "cached"
    /\ cacheLog[2].key = cacheLog[1].key
    /\ cacheLog[2].at = T0 + PRICES_TTL - 1
    /\ cacheLog[3].kind = "request"
    /\ cacheLog[3].key = cacheLog[1].key
    /\ cacheLog[3].at = T0 + PRICES_TTL

\* C28: the slot's key, data and timestamp are written together: the slot's
\* data is always the answer of the feed for the filters of the slot's key,
\* and an answer from the cache is never data fetched for other filters.
C28_SlotWrittenTogether ==
    /\ [](fuelPricesCache.data # NoData =>
            /\ fuelPricesCache.data[1] = fuelPricesCache.key
            /\ fuelPricesCache.timestamp # NoTimestamp)
    /\ [](\A i \in 1..Len(cacheLog) :
            (cacheLog[i].cache = "prices" /\ cacheLog[i].kind = "cached") =>
                cacheLog[i].value[1] = cacheLog[i].key)
    /\ [][\A call \in Answered :
            call.cache = "prices" =>
                \/ fuelPricesCache' = fuelPricesCache
                \/ /\ fuelPricesCache'.key # fuelPricesCache.key
                      \/ fuelPricesCache'.data # fuelPricesCache.data
                      \/ fuelPricesCache'.timestamp # fuelPricesCache.timestamp
                   /\ fuelPricesCache'.key = call.key
                   /\ fuelPricesCache'.data[1] = call.key
                   /\ fuelPricesCache'.timestamp = call.startedAt]_vars

\* two requests with different filters were in flight together; the slot was
\* written for the one, then for the other, and a third request was served
\* the data of its own filters
C28_Witness ==
    /\ now = T0
    /\ Len(cacheLog) = 3
    /\ cacheLog[1].cache = "prices"
    /\ cacheLog[1].kind = "request"
    /\ cacheLog[2].kind = "request"
    /\ cacheLog[2].key # cacheLog[1].key
    /\ cacheLog[3].kind = "cached"
    /\ cacheLog[3].value[1] = cacheLog[3].key
    /\ cacheCalls = {}
    /\ cacheReply.ok

\* C29: fetchOSMFuelStations writes a cache entry only for an answered
\* request: a failed one leaves osmCache as it was and returns an empty list,
\* and a call with the same key that follows it without an entry in between
\* sends a new request; an answer with zero elements is stored, and a call that
\* finds it less than 24 hours later returns an empty list without a request.
C29_FailuresNotCached ==
    /\ [](\A cached \in osmCache :
            \E i \in 1..Len(cacheLog) :
                /\ cacheLog[i].kind = "request"
                /\ cacheLog[i].key = cached.key
                /\ cacheLog[i].at <= cached.timestamp)
    /\ [][/\ \A call \in Answered :
              call.cache = "osm" =>
                  IF cacheReply'.ok
                  THEN \E cached \in osmCache' :
                          /\ cached.key = call.key
                          /\ cached.data = cacheReply'.body
                          /\ cached.timestamp = now
                  ELSE /\ osmCache' = osmCache
                       /\ cacheReply'.body = <<>>
          /\ (/\ Len(cacheLog') = Len(cacheLog) + 1
              /\ Starting.cache = "osm"
              /\ cacheReply.cache = "osm"
              /\ cacheReply.key = Starting.key) =>
                  IF cacheReply.ok /\ now - T0 < CACHE_DURATION
                  THEN /\ Starting.kind = "cached"
                       /\ cacheReply.body = <<>> => Starting.value = <<>>
                  ELSE (\A cached \in osmCache : cached.key # Starting.key)
                          => Starting.kind = "request" ]_vars

\* a call that followed a first request for its key without finding an entry
\* sent a new request, which was answered with zero elements; the empty list
\* was served from the cache to a third call
C29_Witness ==
    /\ Len(cacheLog) = 3
    /\ cacheLog[1].cache = "osm"
    /\ cacheLog[1].kind = "request"
    /\ cacheLog[2].kind = "request"
    /\ cacheLog[2].key = cacheLog[1].key
    /\ cacheLog[2].at > cacheLog[1].at
    /\ cacheReply.id = 2
    /\ cacheReply.ok
    /\ cacheReply.body = <<>>
    /\ cacheLog[3].kind = "cached"
    /\ cacheLog[3].key = cacheLog[1].key
    /\ cacheLog[3].value = <<>>
    /\ cacheCalls = {}

-----------------------------------------------------------------------------
(* Properties of the component, continued (Spec) *)

\* C22: a geolocation search that gets no coordinates (no geolocation in the
\* browser, or the provider reports an error) sets an error message and does
\* nothing else: no ranked list, no enrichment, no request, no call of
\* onUseMyLocation; one that gets coordinates takes them as the center as they
\* are, without a geocoding request.
C22_GeolocationFailureIsTerminal ==
    [][/\ (handleUseMyLocation /\ ~geolocation) =>
            /\ error' = ERR_UNSUPPORTED
            /\ UNCHANGED <<searchResults, loadingBrands, enrichInFlight, positionInFlight,
                           geocodeInFlight, notifications, requests, mapCenter,
                           userLocation, nearbyStations, nSearch>>
       /\ \A call \in positionInFlight :
            call \notin positionInFlight' =>
                IF error' = ERR_POSITION
                THEN UNCHANGED <<searchResults, loadingBrands, enrichInFlight,
                                 geocodeInFlight, notifications, requests, mapCenter,
                                 userLocation, nearbyStations, nSearch>>
                ELSE LET ns == NotificationsOf(call.search)'
                     IN  /\ Len(NotificationsOf(call.search)) = 0
                         /\ Len(ns) >= 1
                         /\ \A i \in 1..Len(ns) :
                               /\ ns[i].handler = "onUseMyLocation"
                               /\ <<ns[i].lat, ns[i].lon>> = <<POSITION, LON0>>
                         /\ mapCenter' = <<POSITION, LON0>>
                         /\ userLocation' = <<POSITION, LON0>>
                         /\ GeocodeSent' = GeocodeSent
                         /\ geocodeInFlight' = geocodeInFlight]_vars

\* a first geolocation search was ranked around the device's position; the
\* second one got no position and left everything but the message as it was
C22_Witness ==
    /\ nSearch = 2
    /\ Len(NotificationsOf(1)) = 2
    /\ NotificationsOf(1)[1].handler = "onUseMyLocation"
    /\ Len(NotificationsOf(1)[1].stations) > 0
    /\ Len(NotificationsOf(2)) = 0
    /\ positionInFlight = {}
    /\ geocodeInFlight = {}
    /\ requests = <<[search |-> 1, service |-> "overpass"]>>
    /\ error = ERR_POSITION
    /\ mapCenter = <<POSITION, LON0>>
    /\ searchResults = NotificationsOf(1)[2].stations

\* C27: loadingBrands is true exactly while an enrichment is in flight: with
\* two overlapping searches it stays true until both enrichments have settled,
\* and it is false once none is in flight.
C27_LoadingWhileInFlight ==
    loadingBrands <=> (enrichInFlight # {})

-----------------------------------------------------------------------------
(* Properties of the ranking, continued (SpecRank, SpecRerun) *)

C25_KeptAreClosest ==
    rankDone =>
        \A i \in 1..Len(rankNearest), j \in 1..Len(rankCandidates) :
            (\A k \in 1..Len(rankNearest) : rankNearest[k].id # rankCandidates[j].id)
                => rankNearest[i].distance <= rankCandidates[j].distance

\* the coordinates of a ranked station
CoordsOf(station) == <<parseCoordinates(station).lat, parseCoordinates(station).lon>>

\* calculateDistance on two pairs of coordinates
Between(A, B) == calculateDistance(A[1], A[2], B[1], B[2])

-----------------------------------------------------------------------------
(* Properties of the enrichment, continued (SpecEnrich) *)

\* the fields the enrichment may set
BrandFields == {"brand", "brandSource"}

\* C30: enrichStationsWithBrands returns as many stations as it was given, in
\* the same order; a returned station has the fields of the station it was
\* given with the same values, but for brand and brandSource, and no other
\* new field; the list it was given is left as it was.
C30_OnlyBrandFieldsChange ==
    /\ [](enrichDone =>
            /\ Len(enriched) = Len(apiStations)
            /\ \A k \in DOMAIN apiStations :
                  /\ DOMAIN apiStations[k] \subseteq DOMAIN enriched[k]
                  /\ DOMAIN enriched[k] \subseteq DOMAIN apiStations[k] \cup BrandFields
                  /\ \A field \in DOMAIN apiStations[k] \ BrandFields :
                        enriched[k][field] = apiStations[k][field])
    /\ [][apiStations' = apiStations]_vars

\* of two stations, the first one got the brand of a point of interest and the
\* second one came back as it was
C30_Witness ==
    /\ enrichDone
    /\ Len(apiStations) = 2
    /\ "brandSource" \notin DOMAIN apiStations[1]
    /\ "brandSource" \in DOMAIN enriched[1]
    /\ enriched[1].brand # apiStations[1].brand
    /\ enriched[2] = apiStations[2]
    /\ enriched[1].id # enriched[2].id

====
